---- MODULE Spec2Model ----
(***************************************************************************)
(* Kudos bot: the grant extractor (MENTION_PLUS_PATTERN), the SQLite       *)
(* ledger (kudos, kudos_log) and the Slack message handler                 *)
(* (handle_message_events), with the Gemini message composer at its        *)
(* boundary.                                                               *)
(*                                                                         *)
(* Python strings are sequences of one-character strings; None is the      *)
(* tuple <<"None">>, which is no string of the alphabet.                    *)
(***************************************************************************)
EXTENDS Integers, Sequences, FiniteSets, TLC

VARIABLES
    kudos,            \* table kudos: user_id -> count (durable, committed)
    kudos_log,        \* table kudos_log: sequence of rows (durable, committed)
    sqlite_sequence,  \* AUTOINCREMENT counter of kudos_log (durable, committed)
    lock,             \* the handlers holding the database write lock (none or one)
    tx,               \* per handler: the uncommitted image of its open transaction
    pc,               \* per handler: position in handle_message_events
    event,            \* per handler: the event it was given
    matches,          \* per handler: MENTION_PLUS_PATTERN.findall(text)
    idx,              \* per handler: index of the match the loop is at
    new_count,        \* per handler: the local new_count
    replies,          \* per handler: the say calls made, in order
    committed,        \* per handler: the count its last increment committed (history)
    calls,            \* per user_id: increment_kudos calls that returned (history)
    raised,           \* per handler: where its ledger call raised, "" if none did (history)
    received,         \* the number of events delivered so far
    GEMINI_API_KEY,   \* configuration read at import
    text,             \* extractor check: the input text
    found,            \* extractor check: the result of findall, once computed
    incs,             \* per handler, user_id: what its commits added to the count (history)
    boot,             \* where the process is: "import", "failed", "ready", "running"
    schema,           \* whether the two tables exist in the file at DB_PATH
    op,               \* direct calls: the last call, its arguments and its result
    nops              \* direct calls: the number of calls made

vars == << kudos, kudos_log, sqlite_sequence, lock, tx, pc, event, matches, idx,
           new_count, replies, committed, calls, raised, received, GEMINI_API_KEY,
           text, found, incs, boot, schema, op, nops >>

None == << "None" >>

-----------------------------------------------------------------------------
(* Strings *)

\* the characters of [A-Z0-9] that occur in the texts modelled
IdChars == {"A", "B"}

Whitespace == {" ", "\n"}

RECURSIVE Flatten(_)
Flatten(ss) == IF ss = << >> THEN << >> ELSE Head(ss) \o Flatten(Tail(ss))

\* str.strip(): leading and trailing whitespace removed
RECURSIVE LStrip(_)
LStrip(s) == IF s # << >> /\ Head(s) \in Whitespace THEN LStrip(Tail(s)) ELSE s

RECURSIVE RStrip(_)
RStrip(s) ==
    IF s # << >> /\ s[Len(s)] \in Whitespace THEN RStrip(SubSeq(s, 1, Len(s) - 1)) ELSE s

Strip(s) == RStrip(LStrip(s))

\* Python truthiness of an optional string
Truthy(v) == v # None /\ v # << >>

-----------------------------------------------------------------------------
(* MENTION_PLUS_PATTERN =                                                  *)
(*   <@([A-Z0-9]+)>\s*\+\+\s*(.*?)(?=<@[A-Z0-9]+>\s*\+\+|$)                *)
(* compiled without flags: "." matches any character but "\n", "$" matches *)
(* at the end of the string and before a newline that ends the string.     *)
(* Positions are 1-based; position Len(t)+1 is the end of the string.      *)

\* [A-Z0-9]+ from p, greedy: the position after the run (p itself: no run)
RECURSIVE SkipId(_, _)
SkipId(t, p) == IF p <= Len(t) /\ t[p] \in IdChars THEN SkipId(t, p + 1) ELSE p

\* \s* from p, greedy
RECURSIVE SkipSpace(_, _)
SkipSpace(t, p) == IF p <= Len(t) /\ t[p] \in Whitespace THEN SkipSpace(t, p + 1) ELSE p

\* <@[A-Z0-9]+> at p: the position after ">", or 0
MentionEnd(t, p) ==
    IF p + 1 <= Len(t) /\ t[p] = "<" /\ t[p + 1] = "@"
    THEN LET q == SkipId(t, p + 2)
         IN  IF q > p + 2 /\ q <= Len(t) /\ t[q] = ">" THEN q + 1 ELSE 0
    ELSE 0

\* <@[A-Z0-9]+>\s*\+\+ at p: the position after "++", or 0
MarkerEnd(t, p) ==
    LET m == MentionEnd(t, p)
    IN  IF m = 0 THEN 0
        ELSE LET q == SkipSpace(t, m)
             IN  IF q + 1 <= Len(t) /\ t[q] = "+" /\ t[q + 1] = "+" THEN q + 2 ELSE 0

\* "$" without re.MULTILINE
DollarAt(t, p) == p = Len(t) + 1 \/ (p = Len(t) /\ t[p] = "\n")

\* the lookahead (?=<@[A-Z0-9]+>\s*\+\+|$)
Lookahead(t, p) == MarkerEnd(t, p) # 0 \/ DollarAt(t, p)

\* "." without re.DOTALL
Dot(c) == c # "\n"

\* (.*?)(?=...) from s: the least end q the lookahead accepts with "." matching
\* every character of s..q-1, or 0
NoteEnd(t, s) ==
    LET ok == {q \in s..(Len(t) + 1) :
                  Lookahead(t, q) /\ \A i \in s..(q - 1) : Dot(t[i])}
    IN  IF ok = {} THEN 0 ELSE CHOOSE q \in ok : \A r \in ok : q <= r

NoMatch == [id |-> << >>, note |-> << >>, end |-> 0]

\* the whole pattern at p: [id, note, end], or NoMatch. The second \s* is greedy
\* and gives whitespace back only when the rest fails.
MatchAt(t, p) ==
    LET a == MarkerEnd(t, p) IN
    IF a = 0 THEN NoMatch
    ELSE LET g    == SkipSpace(t, a)
             good == {s \in a..g : NoteEnd(t, s) # 0}
         IN  IF good = {} THEN NoMatch
             ELSE LET s == CHOOSE x \in good : \A y \in good : y <= x
                      q == NoteEnd(t, s)
                  IN  [id   |-> SubSeq(t, p + 2, MentionEnd(t, p) - 2),
                       note |-> SubSeq(t, s, q - 1),
                       end  |-> q]

\* re.findall: scan left to right, non-overlapping; a match is never empty
RECURSIVE FindFrom(_, _)
FindFrom(t, p) ==
    IF p > Len(t) THEN << >>
    ELSE LET m == MatchAt(t, p)
         IN  IF m.end = 0 THEN FindFrom(t, p + 1)
             ELSE << [id |-> m.id, note |-> m.note] >> \o FindFrom(t, m.end)

findall(t) == FindFrom(t, 1)

-----------------------------------------------------------------------------
(* The ledger: the SQLite database at DB_PATH *)

\* the number of message events delivered
MaxEvents == 2

\* how many of fallback_messages random.choice draws from
MaxFallback == 1

\* the threads of the listener's executor, each running one handler at a time
Handlers == {"h1", "h2"}

UserA == << "A" >>
UserB == << "B" >>
Ids == {UserA, UserB}

\* init_db on a fresh file: both tables empty
EmptyDb == [kudos |-> {}, kudos_log |-> << >>, sqlite_sequence |-> 0]

HasRow(k, u) == \E r \in k : r.user_id = u

\* a slip: row[0] if row else 1
get_kudos_ElseOne(k, u) ==
    IF HasRow(k, u) THEN (CHOOSE r \in k : r.user_id = u).count ELSE 1

\* SELECT count FROM kudos WHERE user_id = ?; row[0] if row else 0
get_kudos(k, u) == IF HasRow(k, u) THEN (CHOOSE r \in k : r.user_id = u).count ELSE 0

\* a slip: INSERT OR REPLACE INTO kudos (user_id, count) VALUES (?, 1)
Upsert_Replace(k, u) == {r \in k : r.user_id # u} \cup {[user_id |-> u, count |-> 1]}

\* INSERT INTO kudos (user_id, count) VALUES (?, 1)
\*   ON CONFLICT(user_id) DO UPDATE SET count = count + 1
Upsert(k, u) ==
    IF HasRow(k, u)
    THEN {IF r.user_id = u THEN [r EXCEPT !.count = @ + 1] ELSE r : r \in k}
    ELSE k \cup {[user_id |-> u, count |-> 1]}

\* a slip: the row is numbered but sqlite_sequence is not advanced
InsertLog_NoSequence(db, user_id, giver_id, message) ==
    IF Truthy(giver_id)
    THEN [db EXCEPT
            !.kudos_log = Append(@, [id          |-> db.sqlite_sequence + 1,
                                     receiver_id |-> user_id,
                                     giver_id    |-> giver_id,
                                     message     |-> message])]
    ELSE db

\* a slip: the log row written whatever giver_id is
InsertLog_Always(db, user_id, giver_id, message) ==
    [db EXCEPT
       !.kudos_log = Append(@, [id          |-> db.sqlite_sequence + 1,
                                receiver_id |-> user_id,
                                giver_id    |-> giver_id,
                                message     |-> message]),
       !.sqlite_sequence = @ + 1]

\* if giver_id: INSERT INTO kudos_log (receiver_id, giver_id, message) VALUES (?, ?, ?)
\* id is AUTOINCREMENT: one more than the largest id ever used
InsertLog(db, user_id, giver_id, message) ==
    IF Truthy(giver_id)
    THEN [db EXCEPT
            !.kudos_log = Append(@, [id          |-> db.sqlite_sequence + 1,
                                     receiver_id |-> user_id,
                                     giver_id    |-> giver_id,
                                     message     |-> message]),
            !.sqlite_sequence = @ + 1]
    ELSE db

\* a slip: the count read and written back by the caller, outside any lock
CanWrite_NoLock(h) == TRUE

\* a write statement takes the database write lock; a second writer waits for it
CanWrite(h) == lock = {}

\* a slip: every statement committed as it runs (autocommit)
ExitWith_AlwaysCommit(durable, image, completed) == image

\* "with sqlite3.connect(DB_PATH) as conn": leaving the block commits the
\* transaction when the body completed and rolls it back when it raised
ExitWith(durable, image, completed) == IF completed THEN image ELSE durable

Durable == [kudos |-> kudos, kudos_log |-> kudos_log, sqlite_sequence |-> sqlite_sequence]

-----------------------------------------------------------------------------
(* The composer: generate_kudos_message *)

Raised == << "Raised" >>

\* what client.models.generate_content can come back with: an exception, no
\* response, a response with empty text, a response with text
Responses == {Raised, None, << >>, << "g", "\n" >>}

fallback_messages ==
    << << "Keep up the amazing work!" >>, << "You're crushing it!" >>,
       << "Excellence recognized!" >>, << "Your awesomeness is showing!" >>,
       << "Making magic happen!" >>, << "Stellar performance!" >>,
       << "You're on fire!" >>, << "Absolutely brilliant!" >>,
       << "Shining bright!" >>, << "Legendary work!" >> >>

\* random.choice(fallback_messages), the draw bounded by MaxFallback
FallbackDraws ==
    {fallback_messages[i] : i \in 1..(IF MaxFallback < 10 THEN MaxFallback ELSE 10)}

\* a slip: no try/except around the call, whose exception reaches the caller
generate_kudos_message_NoExcept(api_key, response, draw) ==
    IF ~api_key THEN draw
    ELSE IF Truthy(response) THEN Strip(response)
    ELSE draw

\* generate_kudos_message, given the response of the call (when it returns) and
\* the draw get_fallback_message would make
generate_kudos_message(api_key, response, draw) ==
    IF ~api_key THEN draw
    ELSE IF response = Raised THEN draw
    ELSE IF Truthy(response) THEN Strip(response)
    ELSE draw

-----------------------------------------------------------------------------
(* The handler: handle_message_events *)

TextNoGrant == << "x", "+", "+" >>
TextA == << "<", "@", "A", ">", "+", "+" >>
TextAB ==
    << "<", "@", "A", ">", " ", "+", "+", " ", "x", " ", "<", "@", "B", ">", "+", "+" >>
TextBB == << "<", "@", "B", ">", "+", "+", "<", "@", "B", ">", "+", "+" >>

Ev(user, txt, thread_ts) ==
    [user |-> user, text |-> txt, ts |-> << "1" >>, thread_ts |-> thread_ts]

\* the events delivered: without sender, without text, without grant, with one
\* and with two grants, self-grants among them, in a thread and outside one
Events ==
    { Ev(None, TextA, None), Ev(UserA, << >>, None), Ev(UserA, TextNoGrant, None),
      Ev(UserA, TextA, << "7" >>), Ev(UserB, TextA, None),
      Ev(UserA, TextAB, None), Ev(UserB, TextAB, << "7" >>),
      Ev(UserA, TextBB, << "7" >>) }

\* a slip: the reply always starts its own thread
ThreadOf_TsOnly(e) == e.ts

\* event.get("thread_ts") or event.get("ts")
ThreadOf(e) == IF Truthy(e.thread_ts) THEN e.thread_ts ELSE e.ts

\* message.strip() if message else None
KudosMessage(note) == IF Truthy(note) THEN Strip(note) ELSE None

Target(h) == matches[h][idx[h]].id

\* a slip: the self-grant test left out
IsSelf_Never(h) == FALSE

\* target_user_id == user
IsSelf(h) == Target(h) = event[h].user

\* a slip: only the text is tested
Guard_TextOnly(e) == ~Truthy(e.text)

\* if not text or not user: return
Guard(e) == ~Truthy(e.text) \/ ~Truthy(e.user)

\* the for loop: the next match, or the end of the handler
LoopPc(ms, i) == IF i <= Len(ms) THEN "match" ELSE "done"

RejectReply(e) ==
    [kind |-> "self", user |-> e.user, count |-> 0, ai_message |-> << >>,
     thread_ts |-> ThreadOf(e)]

KudosReply(target, count, ai, e) ==
    [kind |-> "kudos", user |-> target, count |-> count, ai_message |-> ai,
     thread_ts |-> ThreadOf(e)]

NoEvent == [user |-> None, text |-> << >>, ts |-> None, thread_ts |-> None]

\* no direct call made yet
NoOp == [name |-> "none"]

Init ==
    /\ kudos = EmptyDb.kudos
    /\ kudos_log = EmptyDb.kudos_log
    /\ sqlite_sequence = EmptyDb.sqlite_sequence
    /\ lock = {}
    /\ tx = [h \in Handlers |-> EmptyDb]
    /\ pc = [h \in Handlers |-> "idle"]
    /\ event = [h \in Handlers |-> NoEvent]
    /\ matches = [h \in Handlers |-> << >>]
    /\ idx = [h \in Handlers |-> 1]
    /\ new_count = [h \in Handlers |-> 0]
    /\ replies = [h \in Handlers |-> << >>]
    /\ committed = [h \in Handlers |-> 0]
    /\ calls = [u \in Ids |-> 0]
    /\ raised = [h \in Handlers |-> ""]
    /\ received = 0
    /\ GEMINI_API_KEY \in BOOLEAN
    /\ text = << >>
    /\ found = << >>
    /\ incs = [h \in Handlers |-> [u \in Ids |-> 0]]
    /\ boot = "running"
    /\ schema = TRUE
    /\ op = NoOp
    /\ nops = 0

ledger == << kudos, kudos_log, sqlite_sequence >>
extractor == << text, found >>
api == << boot, schema, op, nops >>

\* a slip: events accepted whatever became of init_db
Accepting_Always == TRUE

\* lines 149-152: events are delivered once handler.start() runs
Accepting == boot = "running"

\* lines 93-100: the guard and the extraction
Receive(h, e) ==
    /\ Accepting
    /\ pc[h] \in {"idle", "done", "aborted"}
    /\ received < MaxEvents
    /\ received' = received + 1
    /\ event' = [event EXCEPT ![h] = e]
    /\ IF Guard(e)
       THEN /\ pc' = [pc EXCEPT ![h] = "done"]
            /\ matches' = [matches EXCEPT ![h] = << >>]
       ELSE /\ matches' = [matches EXCEPT ![h] = findall(e.text)]
            /\ pc' = [pc EXCEPT ![h] = LoopPc(findall(e.text), 1)]
    /\ idx' = [idx EXCEPT ![h] = 1]
    /\ new_count' = [new_count EXCEPT ![h] = 0]
    /\ replies' = [replies EXCEPT ![h] = << >>]
    /\ committed' = [committed EXCEPT ![h] = 0]
    /\ raised' = [raised EXCEPT ![h] = ""]
    /\ incs' = [incs EXCEPT ![h] = [u \in Ids |-> 0]]
    /\ UNCHANGED << ledger, lock, tx, calls, GEMINI_API_KEY, extractor, api >>

\* lines 102-107: a self-grant is answered and skipped
SelfGrant(h) ==
    /\ pc[h] = "match"
    /\ IsSelf(h)
    /\ replies' = [replies EXCEPT ![h] = Append(@, RejectReply(event[h]))]
    /\ idx' = [idx EXCEPT ![h] = @ + 1]
    /\ pc' = [pc EXCEPT ![h] = LoopPc(matches[h], idx[h] + 1)]
    /\ UNCHANGED << ledger, lock, tx, event, matches, new_count, committed, calls,
                    raised, received, GEMINI_API_KEY, extractor, incs, api >>

\* lines 54-62: increment_kudos opens its transaction with the upsert
IncUpsert(h) ==
    /\ pc[h] = "match"
    /\ ~IsSelf(h)
    /\ CanWrite(h)
    /\ lock' = {h}
    /\ tx' = [tx EXCEPT ![h] = [Durable EXCEPT !.kudos = Upsert(@, Target(h))]]
    /\ pc' = [pc EXCEPT ![h] = "log"]
    /\ UNCHANGED << ledger, event, matches, idx, new_count, replies, committed, calls,
                    raised, received, GEMINI_API_KEY, extractor, incs, api >>

\* lines 64-68: the log row, inside the same transaction
IncLog(h) ==
    /\ pc[h] = "log"
    /\ tx' = [tx EXCEPT ![h] = InsertLog(@, Target(h), event[h].user,
                                        KudosMessage(matches[h][idx[h]].note))]
    /\ pc' = [pc EXCEPT ![h] = "commit"]
    /\ UNCHANGED << ledger, lock, event, matches, idx, new_count, replies, committed,
                    calls, raised, received, GEMINI_API_KEY, extractor, incs, api >>

\* line 69 and the end of the with block: commit
IncCommit(h) ==
    /\ pc[h] = "commit"
    /\ LET db == ExitWith(Durable, tx[h], TRUE)
       IN  /\ kudos' = db.kudos
           /\ kudos_log' = db.kudos_log
           /\ sqlite_sequence' = db.sqlite_sequence
    /\ lock' = {}
    /\ committed' = [committed EXCEPT ![h] = get_kudos(tx[h].kudos, Target(h))]
    /\ calls' = [calls EXCEPT ![Target(h)] = @ + 1]
    /\ incs' = [incs EXCEPT ![h] =
                   [u \in Ids |-> @[u] + get_kudos(kudos', u) - get_kudos(kudos, u)]]
    /\ tx' = [tx EXCEPT ![h] = EmptyDb]
    /\ pc' = [pc EXCEPT ![h] = "get"]
    /\ UNCHANGED << event, matches, idx, new_count, replies, raised, received,
                    GEMINI_API_KEY, extractor, api >>

\* line 114: new_count = get_kudos(target_user_id), a transaction of its own
GetKudos(h) ==
    /\ pc[h] = "get"
    /\ new_count' = [new_count EXCEPT ![h] = get_kudos(kudos, Target(h))]
    /\ pc' = [pc EXCEPT ![h] = "compose"]
    /\ UNCHANGED << ledger, lock, tx, event, matches, idx, replies, committed, calls,
                    raised, received, GEMINI_API_KEY, extractor, incs, api >>

\* lines 117-125: generate_kudos_message returns and the reply is said
ComposerReturns(h) ==
    /\ pc[h] = "compose"
    /\ \E response \in Responses, draw \in FallbackDraws :
          replies' = [replies EXCEPT ![h] =
              Append(@, KudosReply(Target(h), new_count[h],
                                   generate_kudos_message(GEMINI_API_KEY, response, draw),
                                   event[h]))]
    /\ idx' = [idx EXCEPT ![h] = @ + 1]
    /\ pc' = [pc EXCEPT ![h] = LoopPc(matches[h], idx[h] + 1)]
    /\ UNCHANGED << ledger, lock, tx, event, matches, new_count, committed, calls,
                    raised, received, GEMINI_API_KEY, extractor, incs, api >>

\* gemini_message.py lines 65-71: the call is made without a timeout and may
\* never return
ComposerHangs(h) ==
    /\ pc[h] = "compose"
    /\ GEMINI_API_KEY
    /\ pc' = [pc EXCEPT ![h] = "hung"]
    /\ UNCHANGED << ledger, lock, tx, event, matches, idx, new_count, replies, committed,
                    calls, raised, received, GEMINI_API_KEY, extractor, incs, api >>

InLedgerCall(h) ==
    \/ pc[h] = "match" /\ ~IsSelf(h)
    \/ pc[h] \in {"log", "commit", "get"}

\* a statement of increment_kudos or get_kudos raises (the write lock is not freed
\* within the busy timeout, the storage fails): the open transaction is rolled
\* back and the exception leaves handle_message_events, which has no handler for it
LedgerFail(h) ==
    /\ InLedgerCall(h)
    /\ LET db == ExitWith(Durable, tx[h], FALSE)
       IN  /\ kudos' = db.kudos
           /\ kudos_log' = db.kudos_log
           /\ sqlite_sequence' = db.sqlite_sequence
    /\ lock' = lock \ {h}
    /\ tx' = [tx EXCEPT ![h] = EmptyDb]
    /\ pc' = [pc EXCEPT ![h] = "aborted"]
    /\ raised' = [raised EXCEPT ![h] = pc[h]]
    /\ UNCHANGED << event, matches, idx, new_count, replies, committed, calls,
                    received, GEMINI_API_KEY, extractor, incs, api >>

Running(h) == pc[h] \notin {"idle", "done", "aborted", "killed"}

\* the process is interrupted: every handler is abandoned where it stands and
\* SQLite discards the transaction that was open
Kill ==
    /\ \E h \in Handlers : Running(h)
    /\ LET db == IF lock = {} THEN Durable
                 ELSE ExitWith(Durable, tx[CHOOSE h \in lock : TRUE], FALSE)
       IN  /\ kudos' = db.kudos
           /\ kudos_log' = db.kudos_log
           /\ sqlite_sequence' = db.sqlite_sequence
    /\ lock' = {}
    /\ tx' = [h \in Handlers |-> EmptyDb]
    /\ pc' = [h \in Handlers |-> IF pc[h] \in {"done", "aborted"} THEN pc[h] ELSE "killed"]
    /\ UNCHANGED << event, matches, idx, new_count, replies, committed, calls,
                    raised, received, GEMINI_API_KEY, extractor, incs, api >>

Next ==
    \/ \E h \in Handlers, e \in Events : Receive(h, e)
    \/ \E h \in Handlers : SelfGrant(h)
    \/ \E h \in Handlers : IncUpsert(h)
    \/ \E h \in Handlers : IncLog(h)
    \/ \E h \in Handlers : IncCommit(h)
    \/ \E h \in Handlers : GetKudos(h)
    \/ \E h \in Handlers : ComposerReturns(h)
    \/ \E h \in Handlers : ComposerHangs(h)
    \/ \E h \in Handlers : LedgerFail(h)
    \/ Kill

Spec == Init /\ [][Next]_vars

\* the statements of handle_message_events that return
HandlerStep(h) ==
    \/ SelfGrant(h)
    \/ IncUpsert(h)
    \/ IncLog(h)
    \/ IncCommit(h)
    \/ GetKudos(h)
    \/ ComposerReturns(h)

\* the handler threads keep running: a handler that can take a step takes one
FairSpec == Spec /\ \A h \in Handlers : WF_vars(HandlerStep(h))

-----------------------------------------------------------------------------
(* The extractor on its own: findall applied to every text of up to        *)
(* MaxSegments pieces                                                      *)

MaxSegments == 5

Segments ==
    { << "<", "@", "A", ">" >>, << "<", "@", "B", ">" >>, << "+", "+" >>, << "+" >>,
      << " " >>, << "\n" >>, << "x" >>, << "<", "@" >> }

InitExtract ==
    /\ kudos = EmptyDb.kudos
    /\ kudos_log = EmptyDb.kudos_log
    /\ sqlite_sequence = EmptyDb.sqlite_sequence
    /\ lock = {}
    /\ tx = [h \in Handlers |-> EmptyDb]
    /\ pc = [h \in Handlers |-> "idle"]
    /\ event = [h \in Handlers |-> NoEvent]
    /\ matches = [h \in Handlers |-> << >>]
    /\ idx = [h \in Handlers |-> 1]
    /\ new_count = [h \in Handlers |-> 0]
    /\ replies = [h \in Handlers |-> << >>]
    /\ committed = [h \in Handlers |-> 0]
    /\ calls = [u \in Ids |-> 0]
    /\ raised = [h \in Handlers |-> ""]
    /\ received = 0
    /\ GEMINI_API_KEY = TRUE
    /\ \E n \in 0..MaxSegments : \E f \in [1..n -> Segments] : text = Flatten(f)
    /\ found = << >>
    /\ incs = [h \in Handlers |-> [u \in Ids |-> 0]]
    /\ boot = "running"
    /\ schema = TRUE
    /\ op = NoOp
    /\ nops = 0

\* line 100: matches = MENTION_PLUS_PATTERN.findall(text); found holds the result
Extract ==
    /\ found = << >>
    /\ found' = << findall(text) >>
    /\ UNCHANGED << ledger, lock, tx, pc, event, matches, idx, new_count, replies,
                    committed, calls, raised, received, GEMINI_API_KEY, text, incs,
                    api >>

NextExtract == Extract

SpecExtract == InitExtract /\ [][NextExtract]_vars

-----------------------------------------------------------------------------
(* The composer on its own: lines 117-125 of the handler for one grant,    *)
(* over every outcome of the call and every draw of random.choice          *)

\* the largest count passed as kudos_count
MaxCount == 2

ComposeResponses == Responses \cup {<< " " >>, << "g" >>}

AllFallbacks == {fallback_messages[i] : i \in DOMAIN fallback_messages}

\* everything but GEMINI_API_KEY, boot, schema and op as Init leaves it
RestAtInit ==
    /\ kudos = EmptyDb.kudos
    /\ kudos_log = EmptyDb.kudos_log
    /\ sqlite_sequence = EmptyDb.sqlite_sequence
    /\ lock = {}
    /\ tx = [h \in Handlers |-> EmptyDb]
    /\ pc = [h \in Handlers |-> "idle"]
    /\ event = [h \in Handlers |-> NoEvent]
    /\ matches = [h \in Handlers |-> << >>]
    /\ idx = [h \in Handlers |-> 1]
    /\ new_count = [h \in Handlers |-> 0]
    /\ replies = [h \in Handlers |-> << >>]
    /\ committed = [h \in Handlers |-> 0]
    /\ calls = [u \in Ids |-> 0]
    /\ raised = [h \in Handlers |-> ""]
    /\ received = 0
    /\ text = << >>
    /\ found = << >>
    /\ incs = [h \in Handlers |-> [u \in Ids |-> 0]]
    /\ nops = 0

InitCompose ==
    /\ RestAtInit
    /\ boot = "running"
    /\ schema = TRUE
    /\ GEMINI_API_KEY \in BOOLEAN
    /\ \E response \in ComposeResponses, draw \in AllFallbacks, target \in Ids,
          count \in 1..MaxCount, thread_ts \in {None, << "7" >>} :
          op = [name |-> "compose", response |-> response, draw |-> draw,
                event |-> Ev(UserB, TextA, thread_ts), target |-> target,
                count |-> count, reply |-> << >>]

\* lines 117-125: ai_message = generate_kudos_message(...); say(...)
Compose ==
    /\ nops = 0
    /\ nops' = 1
    /\ op' = [op EXCEPT !.reply =
                 << KudosReply(op.target, op.count,
                               generate_kudos_message(GEMINI_API_KEY, op.response, op.draw),
                               op.event) >>]
    /\ UNCHANGED << ledger, lock, tx, pc, event, matches, idx, new_count, replies,
                    committed, calls, raised, received, GEMINI_API_KEY, extractor, incs,
                    boot, schema >>

NextCompose == Compose

SpecCompose == InitCompose /\ [][NextCompose]_vars

-----------------------------------------------------------------------------
(* The ledger API called directly, one call after the other: init_db,      *)
(* increment_kudos, get_kudos, get_leaderboard                             *)

\* the number of direct calls made
MaxOps == 4

\* the largest limit passed to get_leaderboard
MaxLimit == 2

Min(a, b) == IF a < b THEN a ELSE b

\* a slip: DROP TABLE IF EXISTS before each CREATE TABLE
init_db_Recreate(db, exists) == EmptyDb

\* CREATE TABLE IF NOT EXISTS kudos ...; CREATE TABLE IF NOT EXISTS kudos_log ...
init_db(db, exists) == IF exists THEN db ELSE EmptyDb

\* the body of increment_kudos, committed at line 69
increment_kudos(db, user_id, giver_id, message) ==
    InsertLog([db EXCEPT !.kudos = Upsert(@, user_id)], user_id, giver_id, message)

\* ORDER BY count DESC: the orders the rows can come back in (ties in any order)
OrderByCountDesc(k) ==
    {s \in [1..Cardinality(k) -> k] :
        /\ {s[i] : i \in DOMAIN s} = k
        /\ \A i, j \in DOMAIN s : i < j => s[i].count >= s[j].count}

\* LIMIT ?: SQLite puts no upper bound on the rows when the limit is negative
Limit(s, n) == IF n < 0 THEN s ELSE SubSeq(s, 1, Min(n, Len(s)))

\* SELECT user_id, count FROM kudos ORDER BY count DESC LIMIT ?; fetchall()
get_leaderboard(k, n) == {Limit(s, n) : s \in OrderByCountDesc(k)}

Call(name, user, giver, n, count, rows) ==
    [name |-> name, user |-> user, giver |-> giver, n |-> n, count |-> count,
     rows |-> rows]

\* the store file does not exist before the import of main.py
InitLedger ==
    /\ RestAtInit
    /\ boot = "import"
    /\ schema = FALSE
    /\ GEMINI_API_KEY = FALSE
    /\ op = NoOp

HandlersIdle ==
    UNCHANGED << lock, tx, pc, event, matches, idx, new_count, replies, committed,
                 raised, received, GEMINI_API_KEY, extractor, incs, boot >>

CallInitDb ==
    /\ nops < MaxOps
    /\ LET db == init_db(Durable, schema)
       IN  /\ kudos' = db.kudos
           /\ kudos_log' = db.kudos_log
           /\ sqlite_sequence' = db.sqlite_sequence
    /\ op' = Call("init_db", None, None, 0, 0, << >>)
    /\ nops' = nops + 1
    /\ schema' = TRUE
    /\ UNCHANGED calls
    /\ HandlersIdle

\* main.py runs init_db() at import (line 87), before any other call can be made
CallIncrement(user_id, giver_id, message) ==
    /\ schema
    /\ nops < MaxOps
    /\ LET db == increment_kudos(Durable, user_id, giver_id, message)
       IN  /\ kudos' = db.kudos
           /\ kudos_log' = db.kudos_log
           /\ sqlite_sequence' = db.sqlite_sequence
    /\ calls' = [calls EXCEPT ![user_id] = @ + 1]
    /\ op' = Call("increment_kudos", user_id, giver_id, 0, 0, << >>)
    /\ nops' = nops + 1
    /\ UNCHANGED schema
    /\ HandlersIdle

CallGetKudos(user_id) ==
    /\ schema
    /\ nops < MaxOps
    /\ op' = Call("get_kudos", user_id, None, 0, get_kudos(kudos, user_id), << >>)
    /\ nops' = nops + 1
    /\ UNCHANGED << ledger, calls, schema >>
    /\ HandlersIdle

CallLeaderboard(limit) ==
    /\ schema
    /\ nops < MaxOps
    /\ \E rows \in get_leaderboard(kudos, limit) :
          op' = Call("get_leaderboard", None, None, limit, 0, rows)
    /\ nops' = nops + 1
    /\ UNCHANGED << ledger, calls, schema >>
    /\ HandlersIdle

NextLedger ==
    \/ CallInitDb
    \/ \E u \in Ids, g \in {None, << >>, UserA}, m \in {None, << "n" >>} :
          CallIncrement(u, g, m)
    \/ \E u \in Ids : CallGetKudos(u)
    \/ \E n \in -1..MaxLimit : CallLeaderboard(n)

SpecLedger == InitLedger /\ [][NextLedger]_vars

-----------------------------------------------------------------------------
(* The process from its start: main.py is imported, which runs init_db()   *)
(* (line 87), and then, run as __main__, starts the Socket Mode handler     *)
(* (lines 149-152)                                                          *)

InitBoot ==
    /\ RestAtInit
    /\ boot = "import"
    /\ schema = FALSE
    /\ GEMINI_API_KEY \in BOOLEAN
    /\ op = NoOp

BootStep ==
    UNCHANGED << lock, tx, pc, event, matches, idx, new_count, replies, committed,
                 calls, raised, received, GEMINI_API_KEY, extractor, incs, op, nops >>

\* line 87: init_db() returns
InitDbOk ==
    /\ boot = "import"
    /\ LET db == init_db(Durable, schema)
       IN  /\ kudos' = db.kudos
           /\ kudos_log' = db.kudos_log
           /\ sqlite_sequence' = db.sqlite_sequence
    /\ schema' = TRUE
    /\ boot' = "ready"
    /\ BootStep

\* line 87: init_db() raises (the store cannot be opened or written); the
\* exception ends the import and with it the process
InitDbFails ==
    /\ boot = "import"
    /\ boot' = "failed"
    /\ UNCHANGED << ledger, schema >>
    /\ BootStep

\* lines 149-152: SocketModeHandler(app, ...).start()
Start ==
    /\ boot = "ready"
    /\ boot' = "running"
    /\ UNCHANGED << ledger, schema >>
    /\ BootStep

NextBoot ==
    \/ InitDbOk
    \/ InitDbFails
    \/ Start
    \/ Next

SpecBoot == InitBoot /\ [][NextBoot]_vars

-----------------------------------------------------------------------------
(* Properties *)

Last(q) == q[Len(q)]

LogRowsOf(u) == {i \in DOMAIN kudos_log : kudos_log[i].receiver_id = u}

KnownIds ==
    Ids \cup {r.user_id : r \in kudos}
        \cup {kudos_log[i].receiver_id : i \in DOMAIN kudos_log}

\* C1: in every reachable state, for every user_id the count stored in kudos
\* equals the number of kudos_log rows with that receiver_id (0 without a row).
C1_CountEqualsLogRows ==
    \A u \in KnownIds : get_kudos(kudos, u) = Cardinality(LogRowsOf(u))

\* a user holds two kudos while another increment has its transaction open
C1_Witness ==
    /\ \E u \in Ids : get_kudos(kudos, u) = 2
    /\ \E h \in Handlers : pc[h] = "commit"

\* the log row increment_kudos writes for the match handler h is at
OwnRow(h) ==
    [id          |-> sqlite_sequence + 1,
     receiver_id |-> matches[h][idx[h]].id,
     giver_id    |-> event[h].user,
     message     |-> KudosMessage(matches[h][idx[h]].note)]

\* C2: increment_kudos is atomic: every step that changes the durable tables, a
\* failing statement and an interruption included, changes both of them, by the
\* aggregate change and the log row of one increment; no step makes one of the
\* two effects durable without the other.
C2_BothOrNeither ==
    [][ (kudos' # kudos \/ kudos_log' # kudos_log) =>
          \E h \in Handlers :
             /\ pc[h] = "commit"
             /\ kudos' = Upsert(kudos, matches[h][idx[h]].id)
             /\ kudos_log' = Append(kudos_log, OwnRow(h)) ]_vars

\* a statement raised between the upsert and the commit, and the durable tables
\* hold neither effect of that increment
C2_Witness ==
    \E h \in Handlers :
       /\ raised[h] \in {"log", "commit"}
       /\ pc[h] = "aborted"
       /\ kudos = {}
       /\ kudos_log = << >>

\* C3: no lost update: under every interleaving, each user's count is the number
\* of increment_kudos calls for that user that returned (a call that raises adds
\* nothing and says so).
C3_NoLostUpdate == \A u \in Ids : get_kudos(kudos, u) = calls[u]

\* two handlers have each incremented the same user during overlapping runs
C3_Witness ==
    \E g, h \in Handlers :
       /\ g # h
       /\ pc[g] = "get"
       /\ pc[h] = "get"
       /\ matches[g][idx[g]].id = matches[h][idx[h]].id
       /\ get_kudos(kudos, matches[h][idx[h]].id) = 2

\* C4: the count a kudos reply shows is the count the handler's own increment
\* committed. (Stated right after the reply: the handler stands at the next match
\* or at its end, and committed still holds that increment's count.)
C4_ReplyShowsOwnCount ==
    \A h \in Handlers :
       (/\ replies[h] # << >>
        /\ Last(replies[h]).kind = "kudos"
        /\ pc[h] \in {"match", "log", "commit", "done"})
       => Last(replies[h]).count = committed[h]

\* C5: a handler leaves a self-grant match only by saying one rejection to the
\* sender in the event's thread, with both tables as they were, and goes on to
\* the next match (or ends after the last); it never enters the ledger for it.
C5_SelfGrantRejected ==
    [][ \A h \in Handlers :
           (pc[h] = "match" /\ matches[h][idx[h]].id = event[h].user) =>
              /\ pc'[h] \in {"match", "done", "killed"}
              /\ tx'[h] = tx[h]
              /\ idx'[h] # idx[h] =>
                    /\ replies'[h] = Append(replies[h],
                          [kind |-> "self", user |-> event[h].user, count |-> 0,
                           ai_message |-> << >>,
                           thread_ts |-> IF event[h].thread_ts # None
                                         THEN event[h].thread_ts ELSE event[h].ts])
                    /\ kudos' = kudos
                    /\ kudos_log' = kudos_log
                    /\ idx'[h] = idx[h] + 1
                    /\ pc'[h] = IF idx[h] < Len(matches[h]) THEN "match" ELSE "done" ]_vars

\* a self-grant was rejected and the handler stands at the next match
C5_Witness ==
    \E h \in Handlers :
       /\ idx[h] = 2
       /\ pc[h] = "match"
       /\ replies[h] = << RejectReply(event[h]) >>
       /\ matches[h][1].id = event[h].user

\* C6: every kudos_log row has receiver_id different from giver_id.
C6_NoSelfRow ==
    \A i \in DOMAIN kudos_log : kudos_log[i].receiver_id # kudos_log[i].giver_id

\* a sender whose message held a self-grant has a row of its own in the log
C6_Witness ==
    \E h \in Handlers :
       /\ \E i \in DOMAIN replies[h] : replies[h][i].kind = "self"
       /\ \E i \in DOMAIN kudos_log : kudos_log[i].giver_id = event[h].user

\* the well-formed grants of a text: the positions where a mention token,
\* optional whitespace and "++" start
GrantStarts(t) == {p \in 1..Len(t) : MarkerEnd(t, p) # 0}

\* the i-th smallest element of a set of positions
RECURSIVE Nth(_, _)
Nth(S, i) ==
    LET m == CHOOSE x \in S : \A y \in S : x <= y
    IN  IF i = 1 THEN m ELSE Nth(S \ {m}, i - 1)

\* the text between the i-th grant's marker and the next grant or the end
Between(t, i) ==
    LET S == GrantStarts(t)
        p == Nth(S, i)
        n == IF i < Cardinality(S) THEN Nth(S, i + 1) ELSE Len(t) + 1
    IN  SubSeq(t, MarkerEnd(t, p), n - 1)

GrantId(t, i) ==
    LET p == Nth(GrantStarts(t), i) IN SubSeq(t, p + 2, MentionEnd(t, p) - 2)

\* C7: for every text with k well-formed grants findall returns exactly k
\* matches, left to right, the i-th with the i-th mention's id and with the text
\* between its marker and the next grant or the end as its note (compared up to
\* surrounding whitespace, which the handler strips), whatever the note holds.
C7_OneMatchPerGrant ==
    found # << >> =>
       LET ms == found[1]
           k  == Cardinality(GrantStarts(text))
       IN  /\ Len(ms) = k
           /\ \A i \in 1..k :
                 /\ ms[i].id = GrantId(text, i)
                 /\ Strip(ms[i].note) = Strip(Between(text, i))

\* C8: the replies of one event correspond one to one, in order, to its matches:
\* at every moment the i-th say call made for the event answers the i-th match
\* (the rejection to the sender for a self-grant, the kudos reply naming the
\* target otherwise), in the thread thread_ts of the event if present and ts
\* otherwise; one say call per match handled, and a handler that returns has
\* answered every match.
C8_RepliesFollowMatches ==
    \A h \in Handlers :
       /\ Len(replies[h]) = idx[h] - 1
       /\ Len(replies[h]) <= Len(matches[h])
       /\ pc[h] = "done" => Len(replies[h]) = Len(matches[h])
       /\ \A i \in DOMAIN replies[h] :
             /\ replies[h][i].thread_ts =
                   IF event[h].thread_ts # None THEN event[h].thread_ts ELSE event[h].ts
             /\ IF matches[h][i].id = event[h].user
                THEN replies[h][i].kind = "self" /\ replies[h][i].user = event[h].user
                ELSE replies[h][i].kind = "kudos" /\ replies[h][i].user = matches[h][i].id

\* an event inside a thread with a grant and a self-grant has returned, both
\* answered in order
C8_Witness ==
    \E h \in Handlers :
       /\ pc[h] = "done"
       /\ event[h].thread_ts # None
       /\ Len(replies[h]) = 2
       /\ replies[h][1].kind = "kudos"
       /\ replies[h][2].kind = "self"

\* C9: a ledger failure on one match does not keep the handler from the later
\* matches of the message: a handler whose ledger call raised has, when it ends,
\* no match left after the one that failed.
C9_LaterMatchesProcessed ==
    \A h \in Handlers :
       (pc[h] = "aborted" /\ raised[h] # "") => idx[h] >= Len(matches[h])

\* C10: a grant whose increment has committed and whose composer call is made is
\* eventually replied to (or the process is interrupted), even when the
\* text-generation call never returns.
C10_ReplyDespiteHungComposer ==
    \A h \in Handlers : (pc[h] = "compose") ~> (pc[h] \in {"match", "done", "killed"})

\* C11: generate_kudos_message never raises to the handler; without API key, when
\* the generation call raises and when the response is missing or empty it
\* returns one of the ten fallback messages; and the reply then said names the
\* same target and count as after a successful generation.
C11_ComposerFallsBack ==
    (op.name = "compose" /\ op.reply # << >>) =>
       LET r      == op.reply[1]
           failed == \/ ~GEMINI_API_KEY
                     \/ op.response = Raised
                     \/ op.response = None
                     \/ op.response = << >>
       IN  /\ r.ai_message # Raised
           /\ failed => r.ai_message \in AllFallbacks
           /\ r.kind = "kudos"
           /\ r.user = op.target
           /\ r.count = op.count

\* the generation call raised with the API key set and the reply went out with
\* the last fallback message
C11_Witness ==
    /\ op.name = "compose"
    /\ GEMINI_API_KEY
    /\ op.response = Raised
    /\ op.reply # << >>
    /\ op.reply[1].ai_message = << "Legendary work!" >>
    /\ op.reply[1].count = op.count

\* the call that a step of the direct API makes
Called(name) == nops' # nops /\ op'.name = name

\* C12: get_kudos(user_id) returns 0 for a user who never received kudos and
\* previous count + m after m successful increments to that user, and it leaves
\* both tables unchanged.
C12_GetKudosCountsIncrements ==
    [][/\ Called("get_kudos") =>
             /\ op'.count = calls[op'.user]
             /\ calls' = calls
             /\ ledger' = ledger
       /\ Called("increment_kudos") =>
             /\ calls'[op'.user] = calls[op'.user] + 1
             /\ \A u \in Ids \ {op'.user} : calls'[u] = calls[u]
             /\ \A u \in Ids :
                   HasRow(kudos', u) <=>
                      [user_id |-> u, count |-> calls'[u]] \in kudos'
       /\ Called("init_db") => calls' = calls]_vars

\* get_kudos returned 2 after two increments of that user
C12_Witness ==
    /\ op.name = "get_kudos"
    /\ op.count = 2
    /\ calls[op.user] = 2
    /\ calls[UserA] + calls[UserB] = 2

RowsOf(s) == {s[i] : i \in DOMAIN s}

\* C13: for every ledger state and every integer limit n that get_leaderboard
\* accepts, get_leaderboard(n) returns at most n (user_id, count) pairs, in
\* non-increasing order of count, each a row of the kudos table, containing the
\* n highest counts; on an empty ledger it returns the empty sequence; it leaves
\* both tables unchanged.
C13_LeaderboardTopN ==
    [][Called("get_leaderboard") =>
          LET rows == op'.rows
              n    == op'.n
          IN  /\ Len(rows) <= n
              /\ \A i, j \in DOMAIN rows : i < j => rows[i].count >= rows[j].count
              /\ RowsOf(rows) \subseteq kudos
              /\ \A r \in kudos \ RowsOf(rows) :
                    /\ Len(rows) = n
                    /\ \A i \in DOMAIN rows : rows[i].count >= r.count
              /\ kudos = {} => rows = << >>
              /\ ledger' = ledger]_vars

\* C15: init_db on a store whose schema exists raises no error and leaves every
\* kudos row and kudos_log row unchanged: init_db;init_db yields the state of
\* init_db, and init_db after any number of increments yields the state before.
C15_InitDbIdempotent ==
    [][/\ Called("init_db") /\ schema => ledger' = ledger /\ schema'
       /\ Called("init_db") =>
             init_db(Durable', schema') = Durable']_vars

\* init_db ran again after two increments
C15_Witness ==
    /\ op.name = "init_db"
    /\ nops = 4
    /\ calls[UserA] = 2
    /\ Len(kudos_log) = 1

\* C14: under any interleaving of concurrent increments the kudos_log ids are
\* strictly increasing in the order the rows were inserted, and no id is ever
\* assigned to two rows over the lifetime of the store: every row a step adds
\* comes after the rows there were and has an id larger than every id in them.
C14_LogIdsIncrease ==
    [][kudos_log' # kudos_log =>
          /\ Len(kudos_log') > Len(kudos_log)
          /\ SubSeq(kudos_log', 1, Len(kudos_log)) = kudos_log
          /\ \A i \in DOMAIN kudos_log' :
                /\ \A j \in DOMAIN kudos_log' :
                      j < i => kudos_log'[j].id < kudos_log'[i].id
                /\ i > Len(kudos_log) => kudos_log'[i].id > sqlite_sequence]_vars

\* two handlers running at once have each inserted a row, after a transaction
\* that had numbered a row was rolled back
C14_Witness ==
    /\ Len(kudos_log) = 2
    /\ \A h \in Handlers : incs[h][UserA] + incs[h][UserB] = 1
    /\ \E h \in Handlers : pc[h] = "commit"

\* the matches of handler h's event that grant kudos to u
GrantsTo(h, u) ==
    IF u = event[h].user THEN {}
    ELSE {i \in DOMAIN matches[h] : matches[h][i].id = u}

\* C16: after a message event from sender S is processed to completion with no
\* ledger failure, each user T other than S has had its count increased by
\* exactly the number of matches whose target is T, increment_kudos has been
\* called at most once per match, and no other count changed because of it.
C16_OneIncrementPerMatch ==
    \A h \in Handlers : \A u \in Ids :
       /\ incs[h][u] <= Cardinality(GrantsTo(h, u))
       /\ pc[h] = "done" => incs[h][u] = Cardinality(GrantsTo(h, u))

\* a message naming the same target twice was processed to the end
C16_Witness ==
    \E h \in Handlers :
       /\ pc[h] = "done"
       /\ event[h].text = TextBB
       /\ incs[h][UserB] = 2
       /\ incs[h][UserA] = 0

\* the event is one the handler discards
Discarded(e) ==
    \/ e.text = None \/ e.text = << >>
    \/ e.user = None \/ e.user = << >>
    \/ findall(e.text) = << >>

\* the events delivered that the handler discards
DiscardedEvents == {e \in Events : Discarded(e)}

\* C17: an event with no text, an event with no sender and an event whose text
\* yields zero matches each produce no reply and leave both ledger tables
\* unchanged.
C17_DiscardedSilently ==
    [][/\ \A h \in Handlers :
             event'[h] \in DiscardedEvents =>
                /\ pc'[h] = "done"
                /\ replies'[h] = << >>
                /\ tx'[h] = EmptyDb
                /\ h \notin lock'
       /\ received' # received => ledger' = ledger
       /\ ledger' # ledger =>
             \E h \in Handlers :
                pc[h] = "commit" /\ event[h] \in Events \ DiscardedEvents]_vars

\* an event without sender and an event without grant were handled
C17_Witness ==
    /\ \E h \in Handlers : pc[h] = "done" /\ event[h].user = None
    /\ \E h \in Handlers : pc[h] = "done" /\ event[h].text = TextNoGrant
    /\ received = 2

\* C18: the ledger only grows: across every step, a handler abandoned or
\* failing after some of its increments committed included, no kudos row is
\* deleted, no count decreases, a user's first row has count 1, and the earlier
\* kudos_log is an unchanged prefix of the later one.
C18_LedgerOnlyGrows ==
    [][/\ \A r \in kudos :
             \E r2 \in kudos' : r2.user_id = r.user_id /\ r2.count >= r.count
       /\ \A r2 \in kudos' :
             (\A r \in kudos : r.user_id # r2.user_id) => r2.count = 1
       /\ Len(kudos_log') >= Len(kudos_log)
       /\ SubSeq(kudos_log', 1, Len(kudos_log)) = kudos_log]_vars

\* a handler failed in its second increment after its first had committed
C18_Witness ==
    \E h \in Handlers :
       /\ pc[h] = "aborted"
       /\ raised[h] = "commit"
       /\ idx[h] = 2
       /\ incs[h][UserB] = 1
       /\ get_kudos(kudos, UserB) = 1
       /\ Len(kudos_log) = 1

\* C20: increment_kudos appends a kudos_log row if and only if giver_id is
\* non-empty and increments the count in both cases; every call made by
\* handle_message_events passes the event sender, non-empty, so each increment
\* made through the handler appends a log row whose giver_id is that sender.
C20_LogRowIffGiver ==
    [][/\ \A u \in Ids : \A g \in {None, << >>, UserA, UserB} :
             LET db == increment_kudos(Durable, u, g, None)
             IN  /\ get_kudos(db.kudos, u) = get_kudos(kudos, u) + 1
                 /\ Len(db.kudos_log) =
                       Len(kudos_log) + (IF g = None \/ g = << >> THEN 0 ELSE 1)
                 /\ SubSeq(db.kudos_log, 1, Len(kudos_log)) = kudos_log
       /\ \A h \in Handlers :
             pc[h] = "commit" /\ pc'[h] = "get" =>
                /\ event[h].user # None /\ event[h].user # << >>
                /\ get_kudos(kudos', Target(h)) = get_kudos(kudos, Target(h)) + 1
                /\ Len(kudos_log') = Len(kudos_log) + 1
                /\ Last(kudos_log').giver_id = event[h].user
                /\ Last(kudos_log').receiver_id = Target(h)]_vars

\* the handler's increment for a grant from B to A has committed with its row
C20_Witness ==
    /\ \E h \in Handlers : pc[h] = "get" /\ event[h].user = UserB
    /\ Len(kudos_log) = 1
    /\ kudos_log[1].giver_id = UserB
    /\ kudos_log[1].receiver_id = UserA

\* C19: no message event is handled before init_db has completed successfully:
\* if init_db fails at startup the process never starts the event handler and
\* never processes any event.
C19_NoEventBeforeInitDb ==
    [][/\ received' # received => schema /\ boot = "running"
       /\ \A h \in Handlers : pc'[h] # "idle" => schema' /\ boot' = "running"
       /\ boot' = "running" /\ boot # "running" => schema /\ boot = "ready"
       /\ boot = "failed" =>
             /\ boot' = "failed"
             /\ pc' = pc
             /\ received' = received
             /\ ledger' = ledger]_vars

\* init_db failed at startup and no handler has run
C19_Witness ==
    /\ boot = "failed"
    /\ ~schema
    /\ received = 0
    /\ \A h \in Handlers : pc[h] = "idle" /\ replies[h] = << >>

====
